---- MODULE Spec2Model ----
(***************************************************************************)
(* A model of analysis_hdfc.py: extract_hdfc_statement (PDF tables ->       *)
(* normalized rows -> header resolution -> field cleaning) and the          *)
(* __main__ entry point (preview, export, error reporting).                 *)
(*                                                                          *)
(* Text is modelled as a sequence of one-character strings, so that strip,  *)
(* replace, contains and the numeric parse are computed on characters.      *)
(* Python's None, pandas' NaN and NaT are one-element sequences holding a   *)
(* token that is no character.                                              *)
(***************************************************************************)
EXTENDS Integers, Sequences, FiniteSets, TLC

(***************************************************************************)
(* Bounds of the model.                                                     *)
(***************************************************************************)
\* pages of the document
MaxPages == 2
\* tables extract_tables() returns for one page
MaxTables == 2
\* raw rows of the whole document (and so of one table)
MaxRows == 3
\* length of the free cell text drawn for the numeric columns in SpecCell
MaxCellLen == 3

(***************************************************************************)
(* Characters and strings.                                                  *)
(***************************************************************************)
None == <<"None">>
NaN == <<"NaN">>
NaT == <<"NaT">>

NL == "\n"
Whitespace == {" ", NL, "\t"}
Digits == {"0", "1", "2", "3", "4", "5", "6", "7", "8", "9"}

DigitVal(c) ==
  CASE c = "0" -> 0 [] c = "1" -> 1 [] c = "2" -> 2 [] c = "3" -> 3
    [] c = "4" -> 4 [] c = "5" -> 5 [] c = "6" -> 6 [] c = "7" -> 7
    [] c = "8" -> 8 [] c = "9" -> 9

DigitChar(n) ==
  CASE n = 0 -> "0" [] n = 1 -> "1" [] n = 2 -> "2" [] n = 3 -> "3"
    [] n = 4 -> "4" [] n = 5 -> "5" [] n = 6 -> "6" [] n = 7 -> "7"
    [] n = 8 -> "8" [] n = 9 -> "9"

LowerMap ==
  [A |-> "a", B |-> "b", C |-> "c", D |-> "d", E |-> "e", F |-> "f", G |-> "g",
   H |-> "h", I |-> "i", J |-> "j", K |-> "k", L |-> "l", M |-> "m", N |-> "n",
   O |-> "o", P |-> "p", Q |-> "q", R |-> "r", S |-> "s", T |-> "t", U |-> "u",
   V |-> "v", W |-> "w", X |-> "x", Y |-> "y", Z |-> "z"]

\* re.IGNORECASE on ASCII text: compare the lower-cased characters
Lower(c) == IF c \in DOMAIN LowerMap THEN LowerMap[c] ELSE c

LowerStr(s) == [k \in 1..Len(s) |-> Lower(s[k])]

\* str.strip(): leading and trailing whitespace removed
RECURSIVE LStrip(_)
LStrip(s) ==
  IF s # <<>> /\ Head(s) \in Whitespace THEN LStrip(Tail(s)) ELSE s

RECURSIVE RStrip(_)
RStrip(s) ==
  IF s # <<>> /\ s[Len(s)] \in Whitespace
  THEN RStrip(SubSeq(s, 1, Len(s) - 1))
  ELSE s

Strip(s) == RStrip(LStrip(s))

\* Series.str.contains(pat, case=False) for a literal pattern: pat occurs in s
ContainsNoCase(s, pat) ==
  \E k \in 1..(Len(s) - Len(pat) + 1) :
    LowerStr(SubSeq(s, k, k + Len(pat) - 1)) = LowerStr(pat)

\* Series.str.replace(old, new, regex=False) for a one-character old: every
\* occurrence of the character old is replaced by the text new
RECURSIVE StrReplace(_, _, _)
StrReplace(s, old, new) ==
  IF s = <<>> THEN <<>>
  ELSE (IF Head(s) = old THEN new ELSE <<Head(s)>>)
         \o StrReplace(Tail(s), old, new)

\* astype(str): a missing value becomes the text "None"
AsTypeStr(v) == IF v = None THEN <<"N", "o", "n", "e">> ELSE v

(***************************************************************************)
(* Numbers.  A parsed decimal is kept exactly, as the integer               *)
(* value * 10^FracDigits; FracDigits covers every fraction the model's      *)
(* cell texts can hold.                                                     *)
(***************************************************************************)
FracDigits == IF MaxCellLen > 2 THEN MaxCellLen ELSE 2

RECURSIVE Pow10(_)
Pow10(n) == IF n = 0 THEN 1 ELSE 10 * Pow10(n - 1)

\* the integer a run of digits denotes (0 for the empty run)
RECURSIVE IntOf(_)
IntOf(ds) ==
  IF ds = <<>> THEN 0
  ELSE 10 * IntOf(SubSeq(ds, 1, Len(ds) - 1)) + DigitVal(ds[Len(ds)])

CountChar(s, c) == Cardinality({k \in 1..Len(s) : s[k] = c})

IsNumericChar(c) == c \in Digits \/ c = "."

\* a variant of the pattern of line 61, [^\d], that deletes the point too
RegexSubNonNumericNoDot(s) == SelectSeq(s, LAMBDA c : c \in Digits)

\* Series.str.replace(r"[^\d.]", "", regex=True): every character that is
\* neither a digit nor "." is deleted
RegexSubNonNumeric(s) == SelectSeq(s, IsNumericChar)

\* pd.to_numeric(..., errors="coerce") of a text of digits and points:
\* digits with at most one point and at least one digit parse, anything
\* else ("" and "." included) is coerced to NaN
ToNumeric(s) ==
  IF CountChar(s, ".") > 1 \/ \A k \in 1..Len(s) : s[k] = "."
  THEN [nan |-> TRUE, val |-> 0]
  ELSE LET dot == IF CountChar(s, ".") = 0 THEN Len(s) + 1
                  ELSE CHOOSE k \in 1..Len(s) : s[k] = "."
           ip == SubSeq(s, 1, dot - 1)
           fp == SubSeq(s, dot + 1, Len(s))
       IN [nan |-> FALSE,
           val |-> IntOf(ip) * Pow10(FracDigits)
                     + IntOf(fp) * Pow10(FracDigits - Len(fp))]

\* .fillna(0.0)
FillNa(r) == IF r.nan THEN 0 ELSE r.val

\* lines 60-62 on one cell of a numeric column
NumericClean(v) ==
  FillNa(ToNumeric(RegexSubNonNumeric(
    AsTypeStr(StrReplace(AsTypeStr(v), ",", <<>>)))))

(***************************************************************************)
(* Dates.  pd.to_datetime(dayfirst=True, errors="coerce") is modelled on    *)
(* day/month/year texts (one or two digits, one or two digits, four         *)
(* digits); every other text, and a missing value, is coerced to NaT.       *)
(***************************************************************************)
RECURSIVE SplitOn(_, _)
SplitOn(s, c) ==
  IF CountChar(s, c) = 0 THEN <<s>>
  ELSE LET k == CHOOSE j \in 1..Len(s) :
                  s[j] = c /\ \A m \in 1..(j - 1) : s[m] # c
       IN <<SubSeq(s, 1, k - 1)>> \o SplitOn(SubSeq(s, k + 1, Len(s)), c)

AllDigits(s) == \A k \in 1..Len(s) : s[k] \in Digits

IsLeap(y) == (y % 4 = 0 /\ y % 100 # 0) \/ y % 400 = 0

DaysInMonth(m, y) ==
  IF m = 2 THEN (IF IsLeap(y) THEN 29 ELSE 28)
  ELSE IF m \in {4, 6, 9, 11} THEN 30 ELSE 31

ToDatetime(v) ==
  IF v = None THEN NaT
  ELSE LET parts == SplitOn(v, "/") IN
    IF /\ Len(parts) = 3
       /\ \A k \in 1..3 : AllDigits(parts[k])
       /\ Len(parts[1]) \in {1, 2}
       /\ Len(parts[2]) \in {1, 2}
       /\ Len(parts[3]) = 4
       /\ IntOf(parts[2]) \in 1..12
       /\ IntOf(parts[3]) >= 1
       /\ IntOf(parts[1]) \in 1..DaysInMonth(IntOf(parts[2]), IntOf(parts[3]))
    THEN <<IntOf(parts[1]), IntOf(parts[2]), IntOf(parts[3])>>
    ELSE NaT

\* n as a zero-padded decimal of w digits
RECURSIVE ZeroPad(_, _)
ZeroPad(n, w) ==
  IF w = 0 THEN <<>> ELSE ZeroPad(n \div 10, w - 1) \o <<DigitChar(n % 10)>>

\* Series.dt.strftime("%d/%m/%Y"); NaT is rendered as a missing value
StrfTime(d) ==
  IF d = NaT THEN NaN
  ELSE ZeroPad(d[1], 2) \o <<"/">> \o ZeroPad(d[2], 2) \o <<"/">>
         \o ZeroPad(d[3], 4)

\* lines 66-68 and 71-74 on one cell of a date column
DateClean(v) == StrfTime(ToDatetime(v))

\* a variant of line 80 that deletes the newline instead of writing a space
NarrationCleanDeletesNewline(v) == StrReplace(AsTypeStr(v), NL, <<>>)

\* lines 79-81 on one cell of the Narration column
NarrationClean(v) == StrReplace(AsTypeStr(v), NL, <<" ">>)

(***************************************************************************)
(* The fixed column names (lines 36-44 and 57).                             *)
(***************************************************************************)
ColDate == <<"D", "a", "t", "e">>
ColNarration == <<"N", "a", "r", "r", "a", "t", "i", "o", "n">>
ColChqRef == <<"C", "h", "q", ".", "/", "R", "e", "f", ".", "N", "o", ".">>
ColValueDate == <<"V", "a", "l", "u", "e", " ", "D", "a", "t", "e">>
ColWithdrawal ==
  <<"W", "i", "t", "h", "d", "r", "a", "w", "a", "l", " ",
    "A", "m", "o", "u", "n", "t">>
ColDeposit ==
  <<"D", "e", "p", "o", "s", "i", "t", " ", "A", "m", "o", "u", "n", "t">>
ColClosing ==
  <<"C", "l", "o", "s", "i", "n", "g", " ", "B", "a", "l", "a", "n", "c", "e">>

headers ==
  <<ColDate, ColNarration, ColChqRef, ColValueDate,
    ColWithdrawal, ColDeposit, ColClosing>>

cols_to_clean == {ColWithdrawal, ColDeposit, ColClosing}

date_cols == {ColDate, ColValueDate}

\* the row-length threshold of line 22
MinCells == 7

(***************************************************************************)
(* Row Normalizer (lines 19-25).                                            *)
(***************************************************************************)
\* line 21: [cell.strip() if cell else "" for cell in row]
CleanRow(row) ==
  [k \in 1..Len(row) |->
     IF row[k] = None \/ row[k] = <<>> THEN <<>> ELSE Strip(row[k])]

\* a variant of line 22 that compares with <= and so drops 7-cell rows
KeepRowOffByOne(clean_row) == ~(Len(clean_row) <= MinCells)

\* line 22: a row is kept unless len(clean_row) < 7
KeepRow(clean_row) == ~(Len(clean_row) < MinCells)

\* lines 20-25: the rows of one table, appended in row order
RECURSIVE ProcessTable(_, _)
ProcessTable(acc, table) ==
  IF table = <<>> THEN acc
  ELSE LET clean_row == CleanRow(Head(table)) IN
       ProcessTable(IF KeepRow(clean_row) THEN Append(acc, clean_row) ELSE acc,
                    Tail(table))

\* lines 19-25: the tables of one page, in table order
RECURSIVE ProcessTables(_, _)
ProcessTables(acc, tables) ==
  IF tables = <<>> THEN acc
  ELSE ProcessTables(ProcessTable(acc, Head(tables)), Tail(tables))

(***************************************************************************)
(* Header Resolver (lines 34-55).  A DataFrame is a record of its column    *)
(* labels and its rows; pd.DataFrame(list of lists) makes every row as      *)
(* wide as the widest, filling the missing cells with None.                 *)
(***************************************************************************)
NoDF == [columns |-> <<>>, rows |-> <<>>]

RECURSIVE MaxWidth(_)
MaxWidth(rows) ==
  IF rows = <<>> THEN 0
  ELSE LET w == MaxWidth(Tail(rows)) IN
       IF Len(Head(rows)) > w THEN Len(Head(rows)) ELSE w

PadRow(row, w) == [k \in 1..w |-> IF k <= Len(row) THEN row[k] ELSE None]

\* line 34: the rows of pd.DataFrame(all_transactions)
FrameRows(rows) == [k \in 1..Len(rows) |-> PadRow(rows[k], MaxWidth(rows))]

\* lines 46-48 on one row: column 0 contains "Date" and column 1 contains
\* "Narration", case-insensitively
IsHeaderRow(row) ==
  ContainsNoCase(row[1], ColDate) /\ ContainsNoCase(row[2], ColNarration)

\* lines 46-48
HeaderMask(rows) == [k \in 1..Len(rows) |-> IsHeaderRow(rows[k])]

\* line 50: header_mask.any()
MaskAny(mask) == \E k \in 1..Len(mask) : mask[k]

\* line 52: df[~header_mask]
RECURSIVE DropMasked(_, _)
DropMasked(rows, mask) ==
  IF rows = <<>> THEN <<>>
  ELSE (IF Head(mask) THEN <<>> ELSE <<Head(rows)>>)
         \o DropMasked(Tail(rows), Tail(mask))

\* line 51: df.columns = headers raises ValueError (length mismatch) unless
\* the frame has exactly len(headers) columns
SetColumnsRaises(rows) == MaxWidth(rows) # Len(headers)

\* a variant of lines 54-55 without df = df[1:]: the first row stays a record
ResolveKeepsFirstRow(rows) ==
  LET fr == FrameRows(rows)
      mask == HeaderMask(fr)
  IN IF MaskAny(mask)
     THEN [columns |-> headers, rows |-> DropMasked(fr, mask)]
     ELSE [columns |-> fr[1], rows |-> fr]

\* lines 50-55, when line 51 does not raise
Resolve(rows) ==
  LET fr == FrameRows(rows)
      mask == HeaderMask(fr)
  IN IF MaskAny(mask)
     THEN [columns |-> headers, rows |-> DropMasked(fr, mask)]
     ELSE [columns |-> fr[1], rows |-> Tail(fr)]

(***************************************************************************)
(* Field Cleaner (lines 57-83).                                             *)
(***************************************************************************)
\* df[col] with a label that several columns carry is a DataFrame, which has
\* no .str accessor (line 60, line 80) and which pd.to_datetime refuses
\* (lines 66, 71): the statement raises
CleanRaises(d) ==
  \E j, k \in 1..Len(d.columns) :
    /\ j # k
    /\ d.columns[j] = d.columns[k]
    /\ d.columns[j] \in cols_to_clean \cup date_cols \cup {ColNarration}

CleanCell(label, v) ==
  IF label \in cols_to_clean THEN NumericClean(v)
  ELSE IF label \in date_cols THEN DateClean(v)
  ELSE IF label = ColNarration THEN NarrationClean(v)
  ELSE v

\* lines 57-83, when no statement raises; reset_index leaves the rows as
\* they are, in order
CleanFrame(d) ==
  [columns |-> d.columns,
   rows |-> [r \in 1..Len(d.rows) |->
              [k \in 1..Len(d.columns) |-> CleanCell(d.columns[k], d.rows[r][k])]]]

(***************************************************************************)
(* The documents of the model: what page.extract_tables() can return.       *)
(* Rows are drawn from a pool that holds a header row, a data row, a row    *)
(* that is too short, a row that is too wide, and two first rows for the    *)
(* fallback branch (one naming the cleaned columns, one naming a column     *)
(* twice).                                                                  *)
(***************************************************************************)
RowHeader ==
  <<<<" ", "D", "a", "t", "e">>,
    <<"N", "A", "R", "R", "A", "T", "I", "O", "N">>,
    ColChqRef,
    <<"V", "a", "l", "u", "e", " ", "D", "t">>,
    None, None, None>>

RowData ==
  <<<<"0", "1", "/", "0", "4", "/", "2", "0", "2", "4">>,
    <<" ", "S", "a", "l", "a", "r", "y", NL, "A", "B", "C", " ", " ",
      "C", "o", "r", "p">>,
    <<"R", "E", "F", "1">>,
    <<"1", "/", "4", "/", "2", "0", "2", "4">>,
    None,
    <<"5", ",", "0", "0", "0", ".", "0", "0">>,
    <<"1", "0", ",", "0", "0", "0", ".", "0", "0", " ">>>>

RowShort ==
  <<<<"b", "r", "o", "u", "g", "h", "t", " ", "f", "w", "d">>,
    None, None, None, None,
    <<"1", "0", ",", "0", "0", "0", ".", "0", "0">>>>

RowWide ==
  <<<<"0", "2", "/", "0", "4", "/", "2", "0", "2", "4">>,
    <<"A", "T", "M", NL, "W", "D", "L">>,
    <<>>,
    <<"3", "1", "/", "0", "2", "/", "2", "0", "2", "4">>,
    <<"-", "2", "0", "0", ".", "5", "0">>,
    <<"1", ".", "2", ".", "3">>,
    <<"R", "s", " ", "7", "5", " ", "C", "r">>,
    <<"x">>>>

RowFallback ==
  <<<<"T", "x", "n", " ", "D", "t">>,
    ColNarration, <<"R", "e", "f">>, ColDate,
    ColWithdrawal, ColDeposit, ColClosing>>

RowDup ==
  <<<<"S", "l">>, ColNarration, ColNarration, None, None, None, None>>

RowPool == {RowHeader, RowData, RowShort, RowWide, RowFallback, RowDup}

\* the tables of at most n rows; a table that extract_tables() reports has
\* at least one row
RowSeqs(n) == UNION {[1..k -> RowPool] : k \in 1..n}

\* the sequences of at most t tables that hold at most n rows together
RECURSIVE TableSeqs(_, _)
TableSeqs(t, n) ==
  IF t = 0 THEN {<<>>}
  ELSE {<<>>} \cup
       UNION {{<<tb>> \o rest : rest \in TableSeqs(t - 1, n - Len(tb))} :
                tb \in RowSeqs(n)}

\* what extract_tables() can return for one page of a document of which
\* n rows are still to come
PageTables(n) == TableSeqs(MaxTables, n)

RECURSIVE CountRows(_)
CountRows(tables) ==
  IF tables = <<>> THEN 0 ELSE Len(Head(tables)) + CountRows(Tail(tables))

RECURSIVE CountPagesRows(_)
CountPagesRows(pages) ==
  IF pages = <<>> THEN 0
  ELSE CountRows(Head(pages)) + CountPagesRows(Tail(pages))

(***************************************************************************)
(* The state of one run of the entry point.                                 *)
(***************************************************************************)
VARIABLES
  file_exists,       \* the environment: the input path exists
  pc,                \* the statement the run is at
  npages,            \* len(pdf.pages)
  pdf_pages,         \* what extract_tables() returned for the pages read so far
  all_transactions,  \* line 10
  df,                \* lines 34-83, and df_result of line 95
  stdout,            \* the lines printed, by kind
  output_file,       \* hdfc_cleaned_data.xlsx has been written
  raised             \* the exception that left the try block, and where

vars ==
  <<file_exists, pc, npages, pdf_pages, all_transactions, df, stdout,
    output_file, raised>>

NoExc == [cls |-> "none", at |-> "none"]

\* a variant of lines 107-110 without the FileNotFoundError clause
ExceptMessageGeneric(cls) == "unexpected"

\* lines 107-110: the handler a raised exception reaches
ExceptMessage(cls) ==
  IF cls = "FileNotFoundError" THEN "file_not_found" ELSE "unexpected"

\* a variant in which the failing statement is reported and tried again
RaiseAndRetry(cls, at) ==
  /\ raised' = [cls |-> cls, at |-> at]
  /\ stdout' = Append(stdout, ExceptMessage(cls))
  /\ pc' = pc

\* an exception of class cls, raised in stage at, leaves the try block and
\* reaches its handler; nothing after the raising statement runs
Raise(cls, at) ==
  /\ raised' = [cls |-> cls, at |-> at]
  /\ stdout' = Append(stdout, ExceptMessage(cls))
  /\ pc' = "done"

Init ==
  /\ file_exists \in BOOLEAN
  /\ pc = "open"
  /\ npages = 0
  /\ pdf_pages = <<>>
  /\ all_transactions = <<>>
  /\ df = NoDF
  /\ stdout = <<>>
  /\ output_file = FALSE
  /\ raised = NoExc

\* lines 13-14: pdfplumber.open raises FileNotFoundError for a missing path,
\* and another exception for a corrupt document or a wrong password
Open ==
  /\ pc = "open"
  /\ \/ /\ ~file_exists
        /\ Raise("FileNotFoundError", "Open")
        /\ UNCHANGED <<npages>>
     \/ /\ file_exists
        /\ Raise("PdfError", "Open")
        /\ UNCHANGED <<npages>>
     \/ /\ file_exists
        /\ \E n \in 0..MaxPages : npages' = n
        /\ stdout' = Append(stdout, "processing")
        /\ pc' = "pages"
        /\ UNCHANGED <<raised>>
  /\ UNCHANGED <<file_exists, pdf_pages, all_transactions, df, output_file>>

\* lines 16-25: one iteration of the loop over the pages
ExtractPage ==
  /\ pc = "pages"
  /\ Len(pdf_pages) < npages
  /\ \/ /\ \E tables \in PageTables(MaxRows - CountPagesRows(pdf_pages)) :
             /\ pdf_pages' = Append(pdf_pages, tables)
             /\ all_transactions' = ProcessTables(all_transactions, tables)
        /\ UNCHANGED <<pc, stdout, raised>>
     \/ /\ Raise("PdfError", "Extract")
        /\ UNCHANGED <<pdf_pages, all_transactions>>
  /\ UNCHANGED <<file_exists, npages, df, output_file>>

\* a variant of the entry point without the test of line 97: the preview of
\* a None result raises
ReturnNoDataUnguarded ==
  /\ pc = "pages"
  /\ Len(pdf_pages) = npages
  /\ all_transactions = <<>>
  /\ stdout' = stdout \o <<"no_data", "unexpected">>
  /\ raised' = [cls |-> "AttributeError", at |-> "Export"]
  /\ pc' = "done"
  /\ UNCHANGED <<file_exists, npages, pdf_pages, all_transactions, df,
                 output_file>>

\* lines 27-31, then lines 95-97: no row was kept, the function prints the
\* message and returns None, and the entry point does nothing more
ReturnNoData ==
  /\ pc = "pages"
  /\ Len(pdf_pages) = npages
  /\ all_transactions = <<>>
  /\ stdout' = Append(stdout, "no_data")
  /\ pc' = "done"
  /\ UNCHANGED <<file_exists, npages, pdf_pages, all_transactions, df,
                 output_file, raised>>

\* line 27 (rows were kept), then lines 34-55
ResolveHeader ==
  /\ pc = "pages"
  /\ Len(pdf_pages) = npages
  /\ all_transactions # <<>>
  /\ IF MaskAny(HeaderMask(FrameRows(all_transactions)))
          /\ SetColumnsRaises(all_transactions)
     THEN /\ Raise("ValueError", "ResolveHeader")
          /\ UNCHANGED <<df>>
     ELSE /\ df' = Resolve(all_transactions)
          /\ pc' = "clean"
          /\ UNCHANGED <<stdout, raised>>
  /\ UNCHANGED <<file_exists, npages, pdf_pages, all_transactions, output_file>>

\* lines 57-85, then line 97
Clean ==
  /\ pc = "clean"
  /\ IF CleanRaises(df)
     THEN /\ Raise("AttributeError", "Clean")
          /\ UNCHANGED <<df>>
     ELSE /\ df' = CleanFrame(df)
          /\ pc' = "preview"
          /\ UNCHANGED <<stdout, raised>>
  /\ UNCHANGED <<file_exists, npages, pdf_pages, all_transactions, output_file>>

\* lines 98-100
Preview ==
  /\ pc = "preview"
  /\ stdout' = Append(stdout, "preview")
  /\ pc' = "export"
  /\ UNCHANGED <<file_exists, npages, pdf_pages, all_transactions, df,
                 output_file, raised>>

\* lines 103-105: to_excel writes the file, or raises: FileNotFoundError
\* when the output's directory is gone, another exception otherwise
\* (no permission, no spreadsheet engine, ...)
Export ==
  /\ pc = "export"
  /\ \/ /\ output_file' = TRUE
        /\ stdout' = Append(stdout, "success")
        /\ pc' = "done"
        /\ UNCHANGED <<raised>>
     \/ /\ Raise("FileNotFoundError", "Export")
        /\ UNCHANGED <<output_file>>
     \/ /\ Raise("PermissionError", "Export")
        /\ UNCHANGED <<output_file>>
  /\ UNCHANGED <<file_exists, npages, pdf_pages, all_transactions, df>>

Next ==
  \/ Open
  \/ ExtractPage
  \/ ReturnNoData
  \/ ResolveHeader
  \/ Clean
  \/ Preview
  \/ Export

Spec == Init /\ [][Next]_vars

(***************************************************************************)
(* The Field Cleaner on free cell text: the run is taken up after the       *)
(* Header Resolver, for the document of one table holding the header row    *)
(* and one data row, one of whose cells (Narration or a numeric column) is  *)
(* any text over CellAlphabet of at most MaxCellLen characters.             *)
(***************************************************************************)
CellAlphabet == {"5", "0", ",", ".", "-", "a", " ", NL}

CellTexts(n) == UNION {[1..k -> CellAlphabet] : k \in 0..n}

InitCell ==
  \E c \in CellTexts(MaxCellLen), col \in {2, 5, 6, 7} :
    LET tables == <<<<RowHeader, [RowData EXCEPT ![col] = c]>>>> IN
    /\ file_exists = TRUE
    /\ pc = "clean"
    /\ npages = 1
    /\ pdf_pages = <<tables>>
    /\ all_transactions = ProcessTables(<<>>, tables)
    /\ df = Resolve(ProcessTables(<<>>, tables))
    /\ stdout = <<"processing">>
    /\ output_file = FALSE
    /\ raised = NoExc

NextCell == Clean

SpecCell == InitCell /\ [][NextCell]_vars

(***************************************************************************)
(* Vocabulary of the properties, stated apart from the operators above.     *)
(***************************************************************************)
\* the raw rows of the pages read so far: page order, then table order, then
\* row order
RECURSIVE Concat(_)
Concat(seqs) == IF seqs = <<>> THEN <<>> ELSE Head(seqs) \o Concat(Tail(seqs))

RawRows == Concat(Concat(pdf_pages))

\* out is the text raw without its leading and trailing whitespace
IsStripOf(out, raw) ==
  \E a \in 0..Len(raw) :
    /\ a + Len(out) <= Len(raw)
    /\ \A k \in 1..Len(out) : out[k] = raw[a + k]
    /\ \A k \in 1..a : raw[k] \in Whitespace
    /\ \A k \in (a + Len(out) + 1)..Len(raw) : raw[k] \in Whitespace
    /\ (out # <<>> => out[1] \notin Whitespace /\ out[Len(out)] \notin Whitespace)

\* the normalized row out comes from the raw row raw, cell by cell
IsNormalizedRow(out, raw) ==
  /\ Len(out) = Len(raw)
  /\ \A k \in 1..Len(raw) :
       IF raw[k] = None THEN out[k] = <<>> ELSE IsStripOf(out[k], raw[k])

\* the positions of the raw rows that have 7 or more cells, in order
LongRowsOf(raw) == SelectSeq([k \in 1..Len(raw) |-> k],
                             LAMBDA k : Len(raw[k]) >= 7)

\* the loop over the pages has run to its end
LoopDone ==
  /\ pc # "open"
  /\ Len(pdf_pages) = npages
  /\ raised.at \notin {"Open", "Extract"}

\* C3: the normalized table is exactly the raw rows of 7 or more cells, in
\* page, table and row order, none added, dropped, repeated or moved, and each
\* cell is the raw cell's text stripped of surrounding whitespace (a missing
\* or empty cell is the empty text); no shorter row is in it
C3_RowNormalizer ==
  LET raw == RawRows
      long == LongRowsOf(raw)
  IN /\ Len(all_transactions) = Len(long)
     /\ \A k \in 1..Len(all_transactions) :
          /\ IsNormalizedRow(all_transactions[k], raw[long[k]])
          /\ Len(all_transactions[k]) >= 7

\* the loop has ended over two pages, it kept rows of two tables and it
\* dropped a short row
C3_Witness ==
  /\ LoopDone
  /\ Len(pdf_pages) = 2
  /\ Len(pdf_pages[1]) + Len(pdf_pages[2]) >= 2
  /\ Len(all_transactions) >= 2
  /\ Len(all_transactions) < Len(RawRows)

\* a normalized row has "date" in its first cell and "narration" in its
\* second, whatever the case of the letters
HasLiteral(s, lit) ==
  \E a \in 0..Len(s) :
    /\ a + Len(lit) <= Len(s)
    /\ \A k \in 1..Len(lit) : Lower(s[a + k]) = lit[k]

MatchesHeaderPattern(row) ==
  /\ HasLiteral(row[1], <<"d", "a", "t", "e">>)
  /\ HasLiteral(row[2], <<"n", "a", "r", "r", "a", "t", "i", "o", "n">>)

HeaderPositions == {k \in 1..Len(all_transactions) :
                      MatchesHeaderPattern(all_transactions[k])}

\* the normalized rows that the Header Resolver is to keep as records
InputRecords ==
  IF HeaderPositions # {}
  THEN SelectSeq(all_transactions, LAMBDA row : ~MatchesHeaderPattern(row))
  ELSE SubSeq(all_transactions, 2, Len(all_transactions))

\* the normalized cell behind column k of record r, recs being the rows
\* kept as records; None when the row is narrower than the frame
InputCell(recs, r, k) ==
  IF k <= Len(recs[r]) THEN recs[r][k] ELSE None

\* the Header Resolver has run (and may have raised)
ResolverRan ==
  \/ pc \in {"clean", "preview", "export"}
  \/ pc = "done" /\ (output_file \/ raised.at \in {"ResolveHeader", "Clean", "Export"})

\* the Field Cleaner has run to its end
Cleaned ==
  \/ pc \in {"preview", "export"}
  \/ pc = "done" /\ (output_file \/ raised.at = "Export")

NumericPositions ==
  {k \in 1..Len(df.columns) :
     df.columns[k] \in {ColWithdrawal, ColDeposit, ColClosing}}

\* s matches ^[\d,]*\.?\d*$
MatchesNumericPattern(s) ==
  \E a \in 0..Len(s), b \in 0..1 :
    /\ a + b <= Len(s)
    /\ \A k \in 1..a : s[k] \in Digits \cup {","}
    /\ b = 1 => s[a + 1] = "."
    /\ \A k \in (a + b + 1)..Len(s) : s[k] \in Digits

HasDigit(s) == \E k \in 1..Len(s) : s[k] \in Digits

WithoutCommas(s) == SelectSeq(s, LAMBDA c : c # ",")

DigitsAndPoints(s) == SelectSeq(s, LAMBDA c : c \in Digits \/ c = ".")

\* s is a decimal numeral: digits and at most one point, at least one digit
IsDecimalText(s) ==
  /\ HasDigit(s)
  /\ \A k \in 1..Len(s) : s[k] \in Digits \cup {"."}
  /\ \A j, k \in 1..Len(s) : s[j] = "." /\ s[k] = "." => j = k

RECURSIVE WeightedSum(_, _)
WeightedSum(ds, k) ==
  IF k > Len(ds) THEN 0
  ELSE DigitVal(ds[k]) * Pow10(Len(ds) - k) + WeightedSum(ds, k + 1)

\* the number a decimal numeral denotes, times 10^FracDigits
DecimalOf(s) ==
  LET ds == SelectSeq(s, LAMBDA c : c \in Digits)
      after == Cardinality({k \in 1..Len(s) :
                  s[k] \in Digits /\ \E j \in 1..(k - 1) : s[j] = "."})
  IN WeightedSum(ds, 1) * Pow10(FracDigits - after)

\* C1, as the specification states it: a cell of a numeric column that
\* matches ^[\d,]*\.?\d*$ is cleaned to the number it denotes with its commas
\* removed (0.0 when it denotes none), and every other cell to exactly 0.0
C1_AsStated ==
  Cleaned =>
    \A r \in 1..Len(df.rows), k \in NumericPositions :
      LET text == InputCell(InputRecords, r, k) IN
      text # None =>
        df.rows[r][k] =
          IF MatchesNumericPattern(text) /\ HasDigit(text)
          THEN DecimalOf(WithoutCommas(text))
          ELSE 0

\* C1, amended: a cell of a numeric column is cleaned to the number denoted
\* by what is left of its text once every character other than a digit or
\* "." is deleted, and to exactly 0.0 when what is left is no decimal numeral
\* (no digit, or more than one "."); so a cell that matches ^[\d,]*\.?\d*$ is
\* cleaned to its number with the commas removed, or to 0.0 when it has no digit
C1_NumericClean ==
  Cleaned =>
    \A r \in 1..Len(df.rows), k \in NumericPositions :
      LET text == InputCell(InputRecords, r, k)
          v == df.rows[r][k]
      IN IF text = None THEN v = 0
         ELSE /\ v = IF IsDecimalText(DigitsAndPoints(text))
                     THEN DecimalOf(DigitsAndPoints(text))
                     ELSE 0
              /\ MatchesNumericPattern(text) =>
                   v = IF HasDigit(text) THEN DecimalOf(WithoutCommas(text))
                       ELSE 0

\* a cell that does not match the pattern (a sign, a letter, a space inside)
\* has been cleaned to a number other than 0.0
C1_Witness ==
  /\ Cleaned
  /\ \E r \in 1..Len(df.rows), k \in NumericPositions :
       /\ InputCell(InputRecords, r, k) # None
       /\ ~MatchesNumericPattern(InputCell(InputRecords, r, k))
       /\ df.rows[r][k] > 0

\* the width of the frame: the length of the longest normalized row
FrameWidth ==
  CHOOSE w \in {Len(all_transactions[k]) : k \in 1..Len(all_transactions)} :
    \A k \in 1..Len(all_transactions) : Len(all_transactions[k]) <= w

\* the records of the frame are the rows the resolver is to keep, in order,
\* each widened to the frame with missing cells
RecordsAreInputRecords ==
  LET recs == InputRecords
      width == FrameWidth
  IN /\ Len(df.rows) = Len(recs)
     /\ \A r \in 1..Len(df.rows) :
          /\ Len(df.rows[r]) = width
          /\ \A k \in 1..width : df.rows[r][k] = InputCell(recs, r, k)

\* C2, as the specification states it: whenever some normalized row matches
\* the Date+Narration pattern, the resolved table holds none of the matching
\* rows and every other row once, in order; the records number the
\* normalized rows less the matching rows
C2_AsStated ==
  (ResolverRan /\ HeaderPositions # {}) =>
    /\ raised.at # "ResolveHeader"
    /\ Len(df.rows) = Len(all_transactions) - Cardinality(HeaderPositions)
    /\ pc = "clean" => RecordsAreInputRecords

\* C10, as the specification states it: a table with a matching row and a row
\* of more than 7 cells gets the fixed 7 column names, and the run goes on to
\* Clean and Export instead of failing in the Header Resolver
C10_AsStated ==
  (/\ ResolverRan
   /\ HeaderPositions # {}
   /\ \E k \in 1..Len(all_transactions) : Len(all_transactions[k]) > 7) =>
    /\ df.columns = headers
    /\ raised.at # "ResolveHeader"

\* C4: when no normalized row matches the Date+Narration pattern, the
\* Header Resolver does not fail, the first row's cells become the column
\* names and the row is no record, and every other row is a record, in
\* order: one record fewer than normalized rows
C4_FallbackHeader ==
  (ResolverRan /\ HeaderPositions = {}) =>
    /\ raised.at # "ResolveHeader"
    /\ Len(df.rows) = Len(all_transactions) - 1
    /\ Len(df.columns) = FrameWidth
    /\ \A k \in 1..FrameWidth :
         df.columns[k] = IF k <= Len(all_transactions[1])
                         THEN all_transactions[1][k] ELSE None
    /\ (pc = "clean" \/ raised.at = "Clean") => RecordsAreInputRecords

\* the fallback branch has run on a table of several rows
C4_Witness ==
  /\ pc = "clean"
  /\ HeaderPositions = {}
  /\ Len(all_transactions) >= 2
  /\ Len(df.rows) >= 1

\* C9: in a cleaned table with a Narration column, the Narration of every
\* record is the normalized cell with each newline replaced by one space:
\* the same length, every other character kept in place, no newline left
C9_Narration ==
  Cleaned =>
    LET recs == InputRecords IN
    \A r \in 1..Len(df.rows), k \in 1..Len(df.columns) :
      (df.columns[k] = ColNarration /\ InputCell(recs, r, k) # None) =>
        LET cell == InputCell(recs, r, k)
            out == df.rows[r][k]
        IN /\ Len(out) = Len(cell)
           /\ \A j \in 1..Len(cell) :
                out[j] = IF cell[j] = NL THEN " " ELSE cell[j]
           /\ \A j \in 1..Len(out) : out[j] # NL

\* a record's Narration had a newline and two spaces in a row, and a header
\* row was removed before it
C9_Witness ==
  /\ Cleaned
  /\ HeaderPositions # {}
  /\ \E r \in 1..Len(df.rows) :
       /\ df.columns[2] = ColNarration
       /\ \E j \in 1..Len(InputRecords[r][2]) : InputRecords[r][2][j] = NL
       /\ \E j \in 1..(Len(df.rows[r][2]) - 1) :
            df.rows[r][2][j] = " " /\ df.rows[r][2][j + 1] = " "

Printed(m) == \E k \in 1..Len(stdout) : stdout[k] = m

\* C5: when no row survives normalization, the function has printed the
\* no-data message and returned None without raising, and the entry point
\* has done nothing more: no preview, no output file, no success line, no
\* error line of its own
C5_NoDataFound ==
  (LoopDone /\ all_transactions = <<>> /\ pc # "pages") =>
    /\ pc = "done"
    /\ stdout = <<"processing", "no_data">>
    /\ ~output_file
    /\ raised = NoExc
    /\ df = NoDF

\* the run has ended with the no-data message although rows were extracted
C5_Witness ==
  /\ pc = "done"
  /\ Printed("no_data")
  /\ Len(RawRows) > 0

\* C6: when the input path does not exist, the run prints the
\* file-not-found message and nothing else, writes no output file, and ends
\* with the exception handled
C6_MissingInput ==
  ~file_exists =>
    /\ pc \in {"open", "done"}
    /\ ~output_file
    /\ pc = "done" =>
         /\ stdout = <<"file_not_found">>
         /\ raised = [cls |-> "FileNotFoundError", at |-> "Open"]

\* the run on a missing input has ended
C6_Witness == ~file_exists /\ pc = "done" /\ Printed("file_not_found")

\* C7, as the specification states it: the file-not-found message is printed
\* only when the input path does not exist, and an exception raised while the
\* input file exists is reported with the unexpected-error message
C7_AsStated ==
  /\ Printed("file_not_found") => ~file_exists
  /\ (file_exists /\ raised # NoExc) => stdout[Len(stdout)] = "unexpected"

\* the place of a statement in the order of the pipeline: Open, the loop of
\* lines 16-25 (which extracts and normalizes row by row, and is one stage
\* here), ResolveHeader (the step from "pages" to "clean"), Clean, and the
\* two statements of Export
StageRank ==
  [open |-> 1, pages |-> 2, clean |-> 4, preview |-> 5, export |-> 6, done |-> 7]

\* a run that has not ended has a statement to execute; ResolveHeader and
\* Clean are enabled whenever their guards hold, since each branch of
\* their IF sets every variable
CanStep ==
  \/ ENABLED (Open \/ ExtractPage \/ ReturnNoData \/ Preview \/ Export)
  \/ pc = "pages" /\ Len(pdf_pages) = npages /\ all_transactions # <<>>
  \/ pc = "clean"

\* a measure that every step of a run increases, and that is at most
\* 8 * (MaxPages + 1)
Progress == StageRank[pc] * (MaxPages + 1) + Len(pdf_pages)

C8_EndStates ==
  /\ pc = "done" =>
       /\ Cardinality({m \in {"success", "no_data", "failure"} :
            IF m = "failure"
            THEN Printed("file_not_found") \/ Printed("unexpected")
            ELSE Printed(m)}) = 1
       /\ (Printed("file_not_found") \/ Printed("unexpected")) <=> raised # NoExc
  /\ pc # "done" =>
       /\ ~Printed("success") /\ ~Printed("no_data")
       /\ ~Printed("file_not_found") /\ ~Printed("unexpected")
       /\ raised = NoExc
       /\ CanStep
  /\ Printed("success") =>
       /\ output_file
       /\ stdout = <<"processing", "preview", "success">>
       /\ LoopDone
  /\ output_file => Printed("success")
  /\ Len(pdf_pages) <= npages /\ npages <= MaxPages

C8_Step ==
  /\ pc # "done"
  /\ <<pc, pc'>> \in
       {<<"open", "pages">>, <<"pages", "pages">>, <<"pages", "clean">>,
        <<"clean", "preview">>, <<"preview", "export">>,
        <<"open", "done">>, <<"pages", "done">>, <<"clean", "done">>,
        <<"export", "done">>}
  /\ Progress' > Progress
  /\ pc = "pages" /\ pc' # "pages" => Len(pdf_pages) = npages \/ raised' # NoExc
  /\ pc' = "done" /\ pc # "export" /\ ~Printed("no_data")' => raised' # NoExc

\* C8: the stages run in the order Open, Extract and Normalize,
\* ResolveHeader, Clean, Export, and none is entered again once left; a run
\* that has not ended can always take a step and every step increases the
\* bounded measure Progress, so every run ends; it ends in exactly one of
\* Exported, NoDataFound and Failure, after which no step is taken; and the
\* success line is printed only after the write of the output file, in a run
\* in which nothing was raised
C8_Pipeline == [](C8_EndStates) /\ [][C8_Step]_vars

\* a run has ended in Exported with records in the output
C8_Witness ==
  /\ pc = "done"
  /\ Printed("success")
  /\ Len(df.rows) >= 1

====
